---- MODULE Spec2Model ----
(***************************************************************************)
(* Model of the geodesic-dome client (src/static/visualisation.js): the    *)
(* hover tracker (onPointerMove), the click dispatcher (onClick), the GUI  *)
(* actions, the asynchronous fetch/then chains and the mesh replacement.   *)
(*                                                                         *)
(* JavaScript values are modelled as follows.                              *)
(*   - null and undefined are the one-field records Null and Undefined.    *)
(*   - An array of a response is a record [enc, items]: enc = "flat" for   *)
(*     an array of numbers, enc = "nested" for an array of arrays.         *)
(*   - A scene object is a reference [type, id]; id is the key of the      *)
(*     object's buffers in heap.  The three layers created together by     *)
(*     createMesh / createLine / createPoints share one id.                *)
(*   - An intersection returned by the raycaster is a record with the      *)
(*     fields object, and face and faceIndex (surface) or index (points).  *)
(*   - Coordinates are integers standing for the floats of the service.    *)
(* The camera, which is a child of the scene but is never hit by the       *)
(* raycaster, is left out of scene.                                        *)
(***************************************************************************)
EXTENDS Integers, Sequences, FiniteSets, TLC

VARIABLES
    scene,              \* scene.children: the set of attached object references
    heap,               \* id -> buffers of the layers created with that id
    mesh,               \* var mesh
    line,               \* var line
    points,             \* var points
    intersectedFace,    \* var intersectedFace
    intersectedPoint,   \* var intersectedPoint
    cacheVertices,      \* var cacheVertices
    cacheIndices,       \* var cacheIndices
    params,             \* var params (the GUI parameters)
    inflight,           \* fetch calls whose promise has not settled
    issued,             \* number of fetch calls made so far
    alerts,             \* sequence of values shown with alert()
    server              \* the express process of server.js and its requests

vars == <<scene, heap, mesh, line, points, intersectedFace, intersectedPoint,
          cacheVertices, cacheIndices, params, inflight, server, issued, alerts>>

-----------------------------------------------------------------------------
(* Bounds *)

\* Total number of fetch calls in one behaviour
MaxRequests == 2

\* Total number of requests the server receives in one behaviour
MaxPosts == 2

\* Most lines one script run prints
MaxMessages == 2

-----------------------------------------------------------------------------
(* JavaScript values *)

Null == [null |-> TRUE]
Undefined == [undefined |-> TRUE]

\* ToBoolean of a reference-valued variable
Truthy(x) == x \notin {Null, Undefined}

FlatArr(s) == [enc |-> "flat", items |-> s]
NestedArr(s) == [enc |-> "nested", items |-> s]

IsArray(a) == a \notin {Null, Undefined}

RECURSIVE Concat(_)
Concat(ss) == IF ss = <<>> THEN <<>> ELSE Head(ss) \o Concat(Tail(ss))

\* Array.prototype.flat() (depth 1) of an array; the result is the sequence
\* of its numbers
flat(a) == IF a.enc = "nested" THEN Concat(a.items) ELSE a.items

\* The value of an out-of-range element read multiplied by 50 (NaN)
NaN == -1000000

\* v[i] without the factor
Times50NoScale(v, i) == IF i + 1 <= Len(v) THEN v[i + 1] ELSE NaN

\* v[i] * 50 for a 0-based index i
Times50(v, i) == IF i + 1 <= Len(v) THEN v[i + 1] * 50 ELSE NaN

\* v[i] for a 0-based index i, undefined is stored in an index buffer as NaN
ElemAt(f, i) == IF i + 1 <= Len(f) THEN f[i + 1] ELSE NaN

\* Spacing of the single-precision numbers next to a magnitude a
RECURSIVE Ulp(_)
Ulp(a) == IF a < 2^24 THEN 1 ELSE 2 * Ulp(a \div 2)

\* The magnitude a stored in a Float32Array: the nearest single-precision
\* number, a tie going to the even significand
froundAbs(a) ==
    LET u == Ulp(a)
        q == a \div u
        rem == a % u
    IN  IF 2 * rem > u \/ (2 * rem = u /\ q % 2 = 1) THEN (q + 1) * u ELSE q * u

\* The number x as an element of a Float32BufferAttribute
fround(x) == IF x < 0 THEN 0 - froundAbs(0 - x) ELSE froundAbs(x)

\* Number of iterations of  for (let i = 0; i < n; i += 3)
Groups(n) == (n + 2) \div 3

-----------------------------------------------------------------------------
(* Data *)

\* import data from "./icojson.js": the initially displayed dome
data ==
    [vertices |-> NestedArr(<< <<0, 0, 1>>, <<1, 0, 0>>, <<0, 1, 0>>, <<1, 1, 1>> >>),
     indices  |-> NestedArr(<< <<0, 1, 2>>, <<1, 3, 2>> >>)]

White == "white"        \* new THREE.Color("white"), the unselected face colour
Red == "red"            \* new THREE.Color("red"), the selected colour
Blue == "0x0080ff"      \* new THREE.Color(0x0080ff), the unselected point colour

MeshType == "Mesh"
LineType == "LineSegments"
PointsType == "Points"

Ref(t, id) == [type |-> t, id |-> id]

-----------------------------------------------------------------------------
(* Construction of the layers *)

\* createGeometry(data): position, index and color buffers of the surface
createGeometry(d) ==
    LET v == flat(d.vertices)
        f == flat(d.indices)
        nv == Groups(Len(v))
        nf == Groups(Len(f))
    IN  [position |-> [k \in 1..(3 * nv) |-> fround(Times50(v, k - 1))],
         index    |-> [k \in 1..(3 * nf) |-> ElemAt(f, k - 1)],
         color    |-> [i \in 0..(nv - 1) |-> White]]

\* createGeometry throws a TypeError when data.vertices or data.indices
\* is not an array
Throws(d) == ~IsArray(d.vertices) \/ ~IsArray(d.indices)

\* createPoints(mesh): one point per entry of the position attribute, its own
\* color buffer and a material of size 2
createPoints(g) ==
    LET count == Len(g.position) \div 3
    IN  [pposition |-> g.position,
         pcolor    |-> [i \in 0..(count - 1) |-> Blue],
         size      |-> 2]

\* The buffers of one generation of layers: createMesh, createLine, createPoints
createLayers(d) ==
    LET g == createGeometry(d)
        p == createPoints(g)
    IN  [position |-> g.position, index |-> g.index, color |-> g.color,
         pposition |-> p.pposition, pcolor |-> p.pcolor, size |-> p.size,
         needsUpdate |-> {}, disposed |-> {}]

-----------------------------------------------------------------------------
(* Initial state *)

Init ==
    /\ heap = (0 :> createLayers(data))
    /\ mesh = Ref(MeshType, 0)
    /\ line = Ref(LineType, 0)
    /\ points = Ref(PointsType, 0)
    /\ scene = {Ref(MeshType, 0)}
    /\ intersectedFace = Undefined
    /\ intersectedPoint = Undefined
    /\ cacheVertices = Null
    /\ cacheIndices = Null
    /\ params = [mode |-> "view", storeValue |-> "value", showEdges |-> FALSE,
                 showFaces |-> TRUE, showPoints |-> FALSE, pointSize |-> 2,
                 searchDistance |-> 0]
    /\ inflight = {}
    /\ issued = 0
    /\ alerts = <<>>
    /\ server = [up |-> TRUE, reqs |-> <<>>]

-----------------------------------------------------------------------------
(* Raycasting *)

\* The faces of a surface: face k has the vertices index[3k], index[3k+1],
\* index[3k+2]
FaceCount(id) == Len(heap[id].index) \div 3
FaceOf(id, k) == <<heap[id].index[3 * k + 1], heap[id].index[3 * k + 2],
                   heap[id].index[3 * k + 3]>>

\* The possible values of raycaster.intersectObjects(scene.children)[0]:
\* the nearest intersection is on one of the attached objects
Hits ==
    UNION {
        IF o.type = MeshType
        THEN {[object |-> o, faceIndex |-> k, face |-> FaceOf(o.id, k)] :
                  k \in 0..(FaceCount(o.id) - 1)}
        ELSE IF o.type = PointsType
        THEN {[object |-> o, index |-> i] : i \in DOMAIN heap[o.id].pcolor}
        ELSE {[object |-> o]}
        : o \in scene}

\* objects.length = 0
NoHit == [none |-> TRUE]

-----------------------------------------------------------------------------
(* Colour writes *)

\* colorAttribute.setXYZ(i, r, g, b): a write beyond the buffer is dropped.
\* Each highlight function ends with colorAttribute.needsUpdate = true, which
\* schedules the attribute for upload at the next rendered frame; needsUpdate
\* of a generation is the set of its colour attributes awaiting upload.
setXYZ(attr, i, c) == IF i \in DOMAIN attr THEN [attr EXCEPT ![i] = c] ELSE attr

\* highlightFace that never repaints a face "unselected"
highlightFaceKeepSelected(h, iface, c) ==
    LET id == iface.object.id
        c1 == setXYZ(h[id].color, iface.face[1], Red)
        c2 == setXYZ(c1, iface.face[2], Red)
        c3 == setXYZ(c2, iface.face[3], Red)
    IN  [h EXCEPT ![id].color = c3, ![id].needsUpdate = @ \cup {"color"}]

\* highlightFace(color) with intersectedFace = iface
highlightFace(h, iface, c) ==
    LET id == iface.object.id
        c1 == setXYZ(h[id].color, iface.face[1], c)
        c2 == setXYZ(c1, iface.face[2], c)
        c3 == setXYZ(c2, iface.face[3], c)
    IN  [h EXCEPT ![id].color = c3, ![id].needsUpdate = @ \cup {"color"}]

\* highlightPoint(color) with intersectedPoint = ipoint
highlightPoint(h, ipoint, c) ==
    LET id == ipoint.object.id
    IN  [h EXCEPT ![id].pcolor = setXYZ(@, ipoint.index, c),
                  ![id].needsUpdate = @ \cup {"pcolor"}]

\* highlightPointNeighbour writing to the slot after the named one
highlightPointNeighbourShifted(h, pts, index, c) ==
    [h EXCEPT ![pts.id].pcolor = setXYZ(@, index + 1, c),
              ![pts.id].needsUpdate = @ \cup {"pcolor"}]

\* highlightPointNeighbour(index, color): writes to points.geometry
highlightPointNeighbour(h, pts, index, c) ==
    [h EXCEPT ![pts.id].pcolor = setXYZ(@, index, c),
              ![pts.id].needsUpdate = @ \cup {"pcolor"}]

-----------------------------------------------------------------------------
(* onPointerMove *)

\* if (intersectedFace) highlightFace(white)
UnpaintFace(h, iface) == IF Truthy(iface) THEN highlightFace(h, iface, White) ELSE h
\* if (intersectedPoint) highlightPoint(0x0080ff)
UnpaintPoint(h, ipoint) == IF Truthy(ipoint) THEN highlightPoint(h, ipoint, Blue) ELSE h

\* The handler with objects[0] = hit (or objects empty: hit = NoHit)
onPointerMove(hit) ==
    IF hit # NoHit
    THEN IF hit.object.type = MeshType
         THEN IF intersectedFace # hit.object
              THEN /\ heap' = highlightFace(
                                UnpaintPoint(UnpaintFace(heap, intersectedFace),
                                             intersectedPoint), hit, Red)
                   /\ intersectedFace' = hit
                   /\ UNCHANGED intersectedPoint
              ELSE UNCHANGED <<heap, intersectedFace, intersectedPoint>>
         ELSE IF hit.object.type = PointsType
         THEN IF intersectedPoint # hit.object
              THEN /\ heap' = highlightPoint(
                                UnpaintFace(UnpaintPoint(heap, intersectedPoint),
                                            intersectedFace), hit, Red)
                   /\ intersectedPoint' = hit
                   /\ UNCHANGED intersectedFace
              ELSE UNCHANGED <<heap, intersectedFace, intersectedPoint>>
         ELSE UNCHANGED <<heap, intersectedFace, intersectedPoint>>
    ELSE /\ heap' = UnpaintPoint(UnpaintFace(heap, intersectedFace), intersectedPoint)
         /\ intersectedFace' = Null
         /\ intersectedPoint' = Null

\* The pointer-move handler run with objects[0] = hit
MoveOver(hit) ==
    /\ onPointerMove(hit)
    /\ UNCHANGED <<scene, mesh, line, points, cacheVertices, cacheIndices,
                   params, inflight, server, issued, alerts>>

PointerMove == \E hit \in Hits \cup {NoHit} : MoveOver(hit)

\* Pointer moves of a user who keeps the pointer on the points or off the dome
PointHits == {h \in Hits : h.object.type = PointsType}

HoverPoints == \E hit \in PointHits \cup {NoHit} : MoveOver(hit)

-----------------------------------------------------------------------------
(* animate *)

\* The colour attributes a frame uploads: those of the surface and of the
\* point overlay that are in the scene
Uploaded(id) ==
    (IF Ref(MeshType, id) \in scene THEN {"color"} ELSE {}) \cup
    (IF Ref(PointsType, id) \in scene THEN {"pcolor"} ELSE {})

\* renderer.render(scene, camera): one frame of the animation loop
animate ==
    /\ heap' = [id \in DOMAIN heap |->
                    [heap[id] EXCEPT !.needsUpdate = @ \ Uploaded(id)]]
    /\ UNCHANGED <<scene, mesh, line, points, intersectedFace, intersectedPoint,
                   cacheVertices, cacheIndices, params, inflight, server, issued, alerts>>

-----------------------------------------------------------------------------
(* GUI controllers *)

\* value ? scene.add(obj) : scene.remove(obj)
addOrRemove(sc, value, obj) == IF value THEN sc \cup {obj} ELSE sc \ {obj}

ToggleShowPoints ==
    /\ params' = [params EXCEPT !.showPoints = ~@]
    /\ scene' = addOrRemove(scene, params'.showPoints, points)
    /\ UNCHANGED <<heap, mesh, line, points, intersectedFace, intersectedPoint,
                   cacheVertices, cacheIndices, inflight, server, issued, alerts>>

ToggleShowEdges ==
    /\ params' = [params EXCEPT !.showEdges = ~@]
    /\ scene' = addOrRemove(scene, params'.showEdges, line)
    /\ UNCHANGED <<heap, mesh, line, points, intersectedFace, intersectedPoint,
                   cacheVertices, cacheIndices, inflight, server, issued, alerts>>

ToggleShowFaces ==
    /\ params' = [params EXCEPT !.showFaces = ~@]
    /\ scene' = addOrRemove(scene, params'.showFaces, mesh)
    /\ UNCHANGED <<heap, mesh, line, points, intersectedFace, intersectedPoint,
                   cacheVertices, cacheIndices, inflight, server, issued, alerts>>

\* gui.add(params, "mode", [...]): the user selects a mode
Modes == {"view", "tessellate", "search", "store", "retrieve"}

SetMode(m) ==
        /\ params.mode # m
        /\ params' = [params EXCEPT !.mode = m]
        /\ UNCHANGED <<scene, heap, mesh, line, points, intersectedFace,
                       intersectedPoint, cacheVertices, cacheIndices, inflight, server,
                       issued, alerts>>

\* Values the user enters in the "value to store" field
StoreValues == {"value", "abc"}

SetStoreValue ==
    \E s \in StoreValues \ {params.storeValue} :
        /\ params' = [params EXCEPT !.storeValue = s]
        /\ UNCHANGED <<scene, heap, mesh, line, points, intersectedFace,
                       intersectedPoint, cacheVertices, cacheIndices, inflight, server,
                       issued, alerts>>

\* Positions of the "distance" slider that are used
Distances == {0, 3}

SetSearchDistance ==
    \E d \in Distances \ {params.searchDistance} :
        /\ params' = [params EXCEPT !.searchDistance = d]
        /\ UNCHANGED <<scene, heap, mesh, line, points, intersectedFace,
                       intersectedPoint, cacheVertices, cacheIndices, inflight, server,
                       issued, alerts>>

\* Positions of the "point size" slider that are used
PointSizes == {2, 5}

\* onChange of "point size": points.material.size = value
SetPointSize ==
    \E v \in PointSizes \ {params.pointSize} :
        /\ params' = [params EXCEPT !.pointSize = v]
        /\ heap' = [heap EXCEPT ![points.id].size = v]
        /\ UNCHANGED <<scene, mesh, line, points, intersectedFace,
                       intersectedPoint, cacheVertices, cacheIndices, inflight, server,
                       issued, alerts>>

\* "reset points": every entry of the color attribute of points.geometry is
\* set to 0x0080ff
resetColors(attr) == [i \in DOMAIN attr |-> Blue]

ResetPoints ==
    /\ heap' = [heap EXCEPT ![points.id].pcolor = resetColors(@),
                            ![points.id].needsUpdate =
                                IF DOMAIN heap[points.id].pcolor = {} THEN @
                                ELSE @ \cup {"pcolor"}]
    /\ UNCHANGED <<scene, mesh, line, points, intersectedFace, intersectedPoint,
                   cacheVertices, cacheIndices, params, inflight, server, issued, alerts>>

-----------------------------------------------------------------------------
(* Outbound requests *)

\* A fetch that aborts the calls still in flight
fetchAbortPending(url, method, body) ==
    /\ issued < MaxRequests
    /\ UNCHANGED server
    /\ inflight' = {[id |-> issued, url |-> url, method |-> method, body |-> body]}
    /\ issued' = issued + 1

\* fetch(url, {method, body}): the call is in flight until its promise settles
fetch(url, method, body) ==
    /\ issued < MaxRequests
    /\ UNCHANGED server
    /\ inflight' = inflight \cup {[id |-> issued, url |-> url, method |-> method,
                                   body |-> body]}
    /\ issued' = issued + 1

\* A "tesselate all" that is available in tessellate mode only
TesselateAllInTessellateMode ==
    /\ params.mode = "tessellate"
    /\ fetch("/tesselate", "POST", [text |-> "1"])
    /\ UNCHANGED <<scene, heap, mesh, line, points, intersectedFace,
                   intersectedPoint, cacheVertices, cacheIndices, params, alerts>>

\* "tesselate all"
TesselateAll ==
    /\ fetch("/tesselate", "POST", [text |-> "1"])
    /\ UNCHANGED <<scene, heap, mesh, line, points, intersectedFace,
                   intersectedPoint, cacheVertices, cacheIndices, params, alerts>>

\* "reset dome"
ResetDome ==
    /\ fetch("/reset", "GET", Null)
    /\ UNCHANGED <<scene, heap, mesh, line, points, intersectedFace,
                   intersectedPoint, cacheVertices, cacheIndices, params, alerts>>

\* onClick without the test of params.mode in the face branch
dispatchFaceAnyMode(prm, cv, ci, hit) ==
    IF hit = NoHit THEN {}
    ELSE IF hit.object.type = MeshType
    THEN {<<"/faceselective",
            [index |-> hit.faceIndex, vertices |-> cv, indices |-> ci]>>}
    ELSE IF hit.object.type = PointsType
    THEN IF prm.mode = "tessellate"
         THEN {<<"/vertexselective",
                 [index |-> hit.index, distance |-> prm.searchDistance]>>}
         ELSE IF prm.mode = "search"
         THEN {<<"/search", [index |-> hit.index, distance |-> prm.searchDistance]>>}
         ELSE IF prm.mode = "retrieve"
         THEN {<<"/retrieve", [index |-> hit.index]>>}
         ELSE IF prm.mode = "store"
         THEN {<<"/store", [index |-> hit.index, value |-> prm.storeValue]>>}
         ELSE {}
    ELSE {}

\* onClick sending the store body without the entered value
dispatchStoreNoValue(prm, cv, ci, hit) ==
    IF hit = NoHit THEN {}
    ELSE IF hit.object.type = MeshType
    THEN IF prm.mode # "tessellate" THEN {}
         ELSE {<<"/faceselective",
                 [index |-> hit.faceIndex, vertices |-> cv, indices |-> ci]>>}
    ELSE IF hit.object.type = PointsType
    THEN IF prm.mode = "tessellate"
         THEN {<<"/vertexselective",
                 [index |-> hit.index, distance |-> prm.searchDistance]>>}
         ELSE IF prm.mode = "search"
         THEN {<<"/search", [index |-> hit.index, distance |-> prm.searchDistance]>>}
         ELSE IF prm.mode = "retrieve"
         THEN {<<"/retrieve", [index |-> hit.index]>>}
         ELSE IF prm.mode = "store"
         THEN {<<"/store", [index |-> hit.index, value |-> "value"]>>}
         ELSE {}
    ELSE {}

\* The fetch calls of onClick with objects[0] = hit: a set of <<url, body>>
\* with no or one element
dispatch(prm, cv, ci, hit) ==
    IF hit = NoHit THEN {}
    ELSE IF hit.object.type = MeshType
    THEN IF prm.mode # "tessellate" THEN {}
         ELSE {<<"/faceselective",
                 [index |-> hit.faceIndex, vertices |-> cv, indices |-> ci]>>}
    ELSE IF hit.object.type = PointsType
    THEN IF prm.mode = "tessellate"
         THEN {<<"/vertexselective",
                 [index |-> hit.index, distance |-> prm.searchDistance]>>}
         ELSE IF prm.mode = "search"
         THEN {<<"/search", [index |-> hit.index, distance |-> prm.searchDistance]>>}
         ELSE IF prm.mode = "retrieve"
         THEN {<<"/retrieve", [index |-> hit.index]>>}
         ELSE IF prm.mode = "store"
         THEN {<<"/store", [index |-> hit.index, value |-> prm.storeValue]>>}
         ELSE {}
    ELSE {}

\* onClick with objects[0] = hit
onClick(hit) ==
    LET calls == dispatch(params, cacheVertices, cacheIndices, hit)
    IN  /\ IF calls = {}
           THEN UNCHANGED <<inflight, server, issued>>
           ELSE \E c \in calls : fetch(c[1], "POST", c[2])
        /\ UNCHANGED <<scene, heap, mesh, line, points, intersectedFace,
                       intersectedPoint, cacheVertices, cacheIndices, params, alerts>>

Click == \E hit \in Hits \cup {NoHit} : onClick(hit)

-----------------------------------------------------------------------------
(* Responses of the external service *)

SnapA ==
    [vertices |-> NestedArr(<< <<0, 0, 2>>, <<2, 0, 0>>, <<0, 2, 0>> >>),
     indices  |-> NestedArr(<< <<0, 1, 2>> >>)]

SnapB ==
    [vertices |-> FlatArr(<<0, 0, 3, 3, 0, 0, 0, 3, 0>>),
     indices  |-> FlatArr(<<2, 1, 0>>)]

\* A JSON body without the fields vertices and indices
Malformed == [vertices |-> Undefined, indices |-> Undefined]

MeshResponses == {SnapA, SnapB, Malformed}
SearchResponses == {[vertices |-> <<>>], [vertices |-> <<1>>], [vertices |-> <<0, 3>>]}
StoreResponses == {[success |-> TRUE], [success |-> FALSE]}
RetrieveResponses == {[value |-> "value"], [value |-> "abc"]}

\* The string alert() shows for a boolean
ShowBoolean(b) == IF b THEN "true" ELSE "false"

-----------------------------------------------------------------------------
(* Mesh replacement: the common part of the four mesh response handlers *)

AllLayers == {MeshType, LineType, PointsType}

\* mesh.geometry.dispose(); line.geometry.dispose(); points.geometry.dispose()
dispose(h, m, l, p) ==
    [h EXCEPT ![m.id].disposed = @ \cup {MeshType},
              ![l.id].disposed = @ \cup {LineType},
              ![p.id].disposed = @ \cup {PointsType}]

\* The removal without scene.remove(points)
removeKeepPoints(sc, m, l, p) == (sc \ {m}) \ {l}

\* scene.remove(mesh); scene.remove(line); scene.remove(points)
remove(sc, m, l, p) == ((sc \ {m}) \ {l}) \ {p}

\* scene.add(mesh); params.showEdges && scene.add(line);
\* params.showPoints && scene.add(points)
attach(sc, prm, m, l, p) ==
    (sc \cup {m}) \cup (IF prm.showEdges THEN {l} ELSE {})
                  \cup (IF prm.showPoints THEN {p} ELSE {})

NextId(h) == Cardinality(DOMAIN h)

\* From mesh.geometry.dispose() to params.showPoints && scene.add(points);
\* when createMesh throws the handler stops after the three scene.remove calls
replaceMesh(d) ==
    LET released == dispose(heap, mesh, line, points)
        detached == remove(scene, mesh, line, points)
        id == NextId(heap)
    IN  IF Throws(d)
        THEN /\ heap' = released
             /\ scene' = detached
             /\ UNCHANGED <<mesh, line, points>>
        ELSE /\ heap' = released @@
                          (id :> [createLayers(d) EXCEPT !.size = params.pointSize])
             /\ mesh' = Ref(MeshType, id)
             /\ line' = Ref(LineType, id)
             /\ points' = Ref(PointsType, id)
             /\ scene' = attach(detached, params, mesh', line', points')

\* The two assignments with the fields exchanged
acceptSnapshotSwapped(d) == [vertices |-> d.indices, indices |-> d.vertices]

\* cacheVertices = data.vertices; cacheIndices = data.indices
acceptSnapshot(d) == [vertices |-> d.vertices, indices |-> d.indices]

Pending(url) == {r \in inflight : r.url = url}

\* .then(data => ...) of "tesselate all"
thenTesselate(r, d) ==
    /\ UNCHANGED server
    /\ inflight' = inflight \ {r}
    /\ replaceMesh(d)
    /\ UNCHANGED <<intersectedFace, intersectedPoint, cacheVertices,
                   cacheIndices, params, issued, alerts>>

DeliverTesselate ==
    \E r \in Pending("/tesselate"), d \in MeshResponses : thenTesselate(r, d)

\* .then(data => ...) of "reset dome"
thenReset(r, d) ==
    /\ UNCHANGED server
    /\ inflight' = inflight \ {r}
    /\ replaceMesh(d)
    /\ UNCHANGED <<intersectedFace, intersectedPoint, cacheVertices,
                   cacheIndices, params, issued, alerts>>

DeliverReset ==
    \E r \in Pending("/reset"), d \in MeshResponses : thenReset(r, d)

\* A faceselective handler that drops the response of a call issued before
\* one whose response has been applied
thenFaceSelectiveFresh(r, d) ==
    IF mesh.id > r.id
    THEN /\ inflight' = inflight \ {r}
         /\ UNCHANGED server
         /\ UNCHANGED <<scene, heap, mesh, line, points, intersectedFace,
                        intersectedPoint, cacheVertices, cacheIndices, params,
                        issued, alerts>>
    ELSE /\ inflight' = inflight \ {r}
         /\ UNCHANGED server
         /\ cacheVertices' = acceptSnapshot(d).vertices
         /\ cacheIndices' = acceptSnapshot(d).indices
         /\ replaceMesh(d)
         /\ UNCHANGED <<intersectedFace, intersectedPoint, params, issued, alerts>>

\* .then(data => ...) of the faceselective call
thenFaceSelective(r, d) ==
    /\ UNCHANGED server
    /\ inflight' = inflight \ {r}
    /\ cacheVertices' = acceptSnapshot(d).vertices
    /\ cacheIndices' = acceptSnapshot(d).indices
    /\ replaceMesh(d)
    /\ UNCHANGED <<intersectedFace, intersectedPoint, params, issued, alerts>>

DeliverFaceSelective ==
    \E r \in Pending("/faceselective"), d \in MeshResponses : thenFaceSelective(r, d)

\* .then(data => ...) of the vertexselective call
thenVertexSelective(r, d) ==
    /\ UNCHANGED server
    /\ inflight' = inflight \ {r}
    /\ cacheVertices' = acceptSnapshot(d).vertices
    /\ cacheIndices' = acceptSnapshot(d).indices
    /\ replaceMesh(d)
    /\ UNCHANGED <<intersectedFace, intersectedPoint, params, issued, alerts>>

DeliverVertexSelective ==
    \E r \in Pending("/vertexselective"), d \in MeshResponses : thenVertexSelective(r, d)

\* for (let i = 0; i < data.vertices.length; i++)
\*     highlightPointNeighbour(data.vertices[i], red)
RECURSIVE highlightNeighbours(_, _, _)
highlightNeighbours(h, pts, vs) ==
    IF vs = <<>> THEN h
    ELSE highlightNeighbours(highlightPointNeighbour(h, pts, Head(vs), Red), pts, Tail(vs))

\* .then(data => ...) of the search call
thenSearch(r, d) ==
    /\ UNCHANGED server
    /\ inflight' = inflight \ {r}
    /\ heap' = highlightNeighbours(heap, points, d.vertices)
    /\ UNCHANGED <<scene, mesh, line, points, intersectedFace, intersectedPoint,
                   cacheVertices, cacheIndices, params, issued, alerts>>

DeliverSearch ==
    \E r \in Pending("/search"), d \in SearchResponses : thenSearch(r, d)

\* .then(data => alert(data.value)) of the retrieve call
thenRetrieve(r, d) ==
    /\ UNCHANGED server
    /\ inflight' = inflight \ {r}
    /\ alerts' = Append(alerts, d.value)
    /\ UNCHANGED <<scene, heap, mesh, line, points, intersectedFace,
                   intersectedPoint, cacheVertices, cacheIndices, params, issued>>

DeliverRetrieve ==
    \E r \in Pending("/retrieve"), d \in RetrieveResponses : thenRetrieve(r, d)

\* .then(data => alert(data.success)) of the store call
thenStore(r, d) ==
    /\ UNCHANGED server
    /\ inflight' = inflight \ {r}
    /\ alerts' = Append(alerts, ShowBoolean(d.success))
    /\ UNCHANGED <<scene, heap, mesh, line, points, intersectedFace,
                   intersectedPoint, cacheVertices, cacheIndices, params, issued>>

DeliverStore ==
    \E r \in Pending("/store"), d \in StoreResponses : thenStore(r, d)

\* Vertex triples of a response; the last one has a 50-fold beyond 2^25
VertexTriples == {<<0, 0, 1>>, <<1, -2, 3>>, <<671089, 0, 0>>}

\* Longest vertex list of a response
MaxVertices == 2

\* Lists of distinct vertices
VertexLists ==
    {vs \in UNION {[1..n -> VertexTriples] : n \in 1..MaxVertices} :
         \A i, j \in DOMAIN vs : vs[i] = vs[j] => i = j}

FaceLists == {<< <<0, 1, 1>>, <<1, 0, 0>> >>}

\* Snapshots of whole triples, as arrays of triples and as flat arrays
WholeSnapshots ==
    {[vertices |-> NestedArr(vs), indices |-> NestedArr(fs)] :
         vs \in VertexLists, fs \in FaceLists}
    \cup {[vertices |-> FlatArr(Concat(vs)), indices |-> FlatArr(Concat(fs))] :
              vs \in VertexLists, fs \in FaceLists}

\* The handler of "tesselate all" run with any snapshot of whole triples
DeliverWholeSnapshot ==
    \E r \in Pending("/tesselate"), d \in WholeSnapshots : thenTesselate(r, d)

\* A rejection that runs the completion branch without data
FailRunsHandler ==
    \E r \in inflight :
        /\ UNCHANGED server
        /\ inflight' = inflight \ {r}
        /\ heap' = dispose(heap, mesh, line, points)
        /\ scene' = remove(scene, mesh, line, points)
        /\ UNCHANGED <<mesh, line, points, intersectedFace, intersectedPoint,
                       cacheVertices, cacheIndices, params, issued, alerts>>

\* The promise of a call rejects (network or service failure, a body that is
\* not JSON): no .then callback runs and there is no .catch
Fail ==
    \E r \in inflight :
        /\ UNCHANGED server
        /\ inflight' = inflight \ {r}
        /\ UNCHANGED <<scene, heap, mesh, line, points, intersectedFace,
                       intersectedPoint, cacheVertices, cacheIndices, params,
                       issued, alerts>>

-----------------------------------------------------------------------------
(* server.js *)

\* The state of the page
client == <<scene, heap, mesh, line, points, intersectedFace, intersectedPoint,
            cacheVertices, cacheIndices, params, inflight, issued, alerts>>

\* req.body of a request, read by express.text()
FaceBodies == {"1", "2"}
SearchBodies == {"1,0,3"}

\* A line a script prints: one that JSON.parse accepts, or any other text
Lines == {"json", "text"}

\* An exception thrown in a callback of the shell is caught by nobody: the
\* process exits
uncaught(srv) == [srv EXCEPT !.up = FALSE]

\* let pyshell = new PythonShell(script); pyshell.send(req.body); the
\* 'message' and end callbacks are registered
spawn(srv, url, script, body) ==
    [srv EXCEPT !.reqs =
         Append(@, [url |-> url, script |-> script, stdin |-> body,
                    messages |-> 0, replies |-> 0, shell |-> "running"])]

\* app.post('/face', ...)
PostFace ==
    /\ server.up
    /\ Len(server.reqs) < MaxPosts
    /\ \E b \in FaceBodies : server' = spawn(server, "/face", "script.py", b)
    /\ UNCHANGED client

\* app.post('/search', ...)
PostSearch ==
    /\ server.up
    /\ Len(server.reqs) < MaxPosts
    /\ \E b \in SearchBodies :
           server' = spawn(server, "/search", "neighbours.py", b)
    /\ UNCHANGED client

\* pyshell.on('message', ...) of request k with the line m: JSON.parse throws
\* on text that is not JSON, res.json throws once the response has been sent
onMessage(k, m) ==
    /\ server.up
    /\ server.reqs[k].shell = "running"
    /\ server.reqs[k].messages < MaxMessages
    /\ LET got == [server EXCEPT !.reqs[k].messages = @ + 1]
       IN  server' = IF m = "text" \/ server.reqs[k].replies >= 1
                     THEN uncaught(got)
                     ELSE [got EXCEPT !.reqs[k].replies = @ + 1]
    /\ UNCHANGED client

Message == \E k \in DOMAIN server.reqs, m \in Lines : onMessage(k, m)

\* The callback of pyshell.end for request k: if (err) throw err
onEnd(k, err) ==
    /\ server.up
    /\ server.reqs[k].shell = "running"
    /\ LET done == [server EXCEPT !.reqs[k].shell = "ended"]
       IN  server' = IF err THEN uncaught(done) ELSE done
    /\ UNCHANGED client

End == \E k \in DOMAIN server.reqs, err \in BOOLEAN : onEnd(k, err)

-----------------------------------------------------------------------------
(* Specifications *)

Next ==
    \/ PointerMove
    \/ Click
    \/ ToggleShowPoints
    \/ ToggleShowEdges
    \/ ToggleShowFaces
    \/ \E m \in Modes : SetMode(m)
    \/ SetStoreValue
    \/ SetSearchDistance
    \/ SetPointSize
    \/ ResetPoints
    \/ TesselateAll
    \/ ResetDome
    \/ DeliverTesselate
    \/ DeliverReset
    \/ DeliverFaceSelective
    \/ DeliverVertexSelective
    \/ DeliverSearch
    \/ DeliverRetrieve
    \/ DeliverStore
    \/ Fail
    \/ animate
    \/ PostFace
    \/ PostSearch
    \/ Message
    \/ End

Spec == Init /\ [][Next]_vars

\* The hover tracker, the visibility toggles and the animation loop
NextHover ==
    \/ PointerMove
    \/ ToggleShowPoints
    \/ ToggleShowEdges
    \/ ToggleShowFaces
    \/ animate

SpecHover == Init /\ [][NextHover]_vars

\* The hover tracker next to a bulk replacement
NextPick ==
    \/ PointerMove
    \/ ToggleShowPoints
    \/ TesselateAll
    \/ DeliverTesselate
    \/ Fail

SpecPick == Init /\ [][NextPick]_vars

\* The toggles, the point size and the bulk actions
NextReplace ==
    \/ ToggleShowPoints
    \/ ToggleShowEdges
    \/ ToggleShowFaces
    \/ SetPointSize
    \/ TesselateAll
    \/ ResetDome
    \/ DeliverTesselate
    \/ DeliverReset
    \/ Fail

SpecReplace == Init /\ [][NextReplace]_vars

\* Clicks in view and tessellate mode, the bulk actions and the four mesh
\* response handlers
NextTessellate ==
    \/ Click
    \/ ToggleShowPoints
    \/ ToggleShowEdges
    \/ ToggleShowFaces
    \/ \E m \in {"view", "tessellate"} : SetMode(m)
    \/ TesselateAll
    \/ ResetDome
    \/ DeliverTesselate
    \/ DeliverReset
    \/ DeliverFaceSelective
    \/ DeliverVertexSelective
    \/ Fail

SpecTessellate == Init /\ [][NextTessellate]_vars

\* Clicks in every mode on every kind of target; the faceselective handler
\* gives the cache its values
NextClick ==
    \/ Click
    \/ ToggleShowPoints
    \/ ToggleShowEdges
    \/ \E m \in Modes : SetMode(m)
    \/ SetSearchDistance
    \/ DeliverFaceSelective

SpecClick == Init /\ [][NextClick]_vars

\* Neighbour search next to the hover over points, "reset points" and a bulk
\* replacement
NextSearch ==
    \/ HoverPoints
    \/ Click
    \/ ToggleShowPoints
    \/ \E m \in {"view", "search"} : SetMode(m)
    \/ ResetPoints
    \/ TesselateAll
    \/ DeliverTesselate
    \/ DeliverSearch
    \/ Fail

SpecSearch == Init /\ [][NextSearch]_vars

\* Store and retrieve next to the hover over points
NextStore ==
    \/ HoverPoints
    \/ Click
    \/ ToggleShowPoints
    \/ \E m \in {"store", "retrieve"} : SetMode(m)
    \/ SetStoreValue
    \/ DeliverRetrieve
    \/ DeliverStore

SpecStore == Init /\ [][NextStore]_vars

\* The bulk actions in every mode
NextBulk ==
    \/ \E m \in Modes : SetMode(m)
    \/ TesselateAll
    \/ ResetDome
    \/ DeliverTesselate
    \/ DeliverReset

SpecBulk == Init /\ [][NextBulk]_vars

\* The server and its scripts
NextServer == PostFace \/ PostSearch \/ Message \/ End

SpecServer == Init /\ [][NextServer]_vars

\* "tesselate all" answered with snapshots of whole triples
NextBuild == TesselateAll \/ DeliverWholeSnapshot \/ Fail

SpecBuild == Init /\ [][NextBuild]_vars

-----------------------------------------------------------------------------
(* Properties *)

\* The color buffers of the current layers
SurfaceColor == heap[mesh.id].color
PointColor == heap[points.id].pcolor

\* C1: after every pointer-move handler at most one of intersectedFace and
\* intersectedPoint holds a reference.
C1_MutualExclusion == ~(Truthy(intersectedFace) /\ Truthy(intersectedPoint))

\* The snapshot held by the cache builds the buffers of the current surface
CacheMatchesMesh ==
    /\ IsArray(cacheVertices)
    /\ IsArray(cacheIndices)
    /\ LET g == createGeometry([vertices |-> cacheVertices, indices |-> cacheIndices])
       IN  /\ g.position = heap[mesh.id].position
           /\ g.index = heap[mesh.id].index

\* C2: every applied MeshSnapshot response, selective or bulk, replaces the
\* cache and the MeshBuffer together: after each replacement the cache equals
\* the snapshot from which the current MeshBuffer was built.
C2_CacheEqualsDisplayedSnapshot == [][mesh' # mesh => CacheMatchesMesh']_vars

\* C3: whenever the MeshBuffer is replaced, both hot references are null
\* right after the replacement.
C3_PickStateClearedOnReplace ==
    [][mesh' # mesh => (~Truthy(intersectedFace') /\ ~Truthy(intersectedPoint'))]_vars

\* Faces of the current surface whose three color slots are all "selected"
SelectedFaces ==
    {k \in 0..(FaceCount(mesh.id) - 1) :
        \A j \in 1..3 : FaceOf(mesh.id, k)[j] \in DOMAIN SurfaceColor
                        /\ SurfaceColor[FaceOf(mesh.id, k)[j]] = Red}
RedSlots == {i \in DOMAIN SurfaceColor : SurfaceColor[i] = Red}
RedPoints == {i \in DOMAIN PointColor : PointColor[i] = Red}

\* C4: after every pointer-move handler at most one hover target of the
\* current mesh is "selected": at most one face or one point, and no color
\* slot outside that target is red.
C4_AtMostOneSelected ==
    /\ Cardinality(SelectedFaces) + Cardinality(RedPoints) <= 1
    /\ \/ RedSlots = {}
       \/ \E k \in SelectedFaces :
              RedSlots = {FaceOf(mesh.id, k)[j] : j \in 1..3}

\* A point of a replaced mesh is hot and red after a face of that mesh was hot
C4_Witness ==
    /\ mesh.id > 0
    /\ Truthy(intersectedFace)
    /\ Truthy(intersectedPoint)
    /\ intersectedFace.object = mesh
    /\ intersectedPoint.object = points
    /\ PointColor[intersectedPoint.index] = Red
    /\ RedSlots = {}

\* C7: after every mesh replacement each layer is attached iff its toggle is
\* on and the size of the point cloud is the configured point size.
VisibilityMatchesToggles ==
    /\ (mesh \in scene) <=> params.showFaces
    /\ (line \in scene) <=> params.showEdges
    /\ (points \in scene) <=> params.showPoints
    /\ heap[points.id].size = params.pointSize

C7_TogglesReapplied == [][mesh' # mesh => VisibilityMatchesToggles']_vars

Selective == {"/faceselective", "/vertexselective"}

\* The step is the response handler of the selective call r run with data d
SelectiveApplied(r, d) ==
    \/ r.url = "/faceselective" /\ thenFaceSelective(r, d)
    \/ r.url = "/vertexselective" /\ thenVertexSelective(r, d)

\* C5: a selective response that is applied leaves the cache equal to its
\* snapshot, and the cache changes in no other step: it never takes the
\* snapshot of a call that failed, is still in flight, or is a bulk action.
C5_CacheIsLastAppliedSelective ==
    [][/\ \A r \in inflight, d \in MeshResponses :
              SelectiveApplied(r, d) =>
                  (cacheVertices' = d.vertices /\ cacheIndices' = d.indices)
       /\ (cacheVertices' # cacheVertices \/ cacheIndices' # cacheIndices) =>
              \E r \in inflight, d \in MeshResponses : SelectiveApplied(r, d)]_vars

\* The response of the second call was applied while the first face-selective
\* call is still unanswered
C5_Witness ==
    /\ issued >= 2
    /\ \E r \in inflight : r.id = 0 /\ r.url = "/faceselective"
    /\ cacheVertices = SnapB.vertices
    /\ cacheIndices = SnapB.indices
    /\ mesh.id = 1

\* C6: the scene holds at most one surface, one wireframe and one point
\* cloud, all of the current MeshBuffer, and every replaced buffer is
\* released and has no layer in the scene.
C6_OneMeshBufferAttached ==
    /\ scene \subseteq {mesh, line, points}
    /\ \A o1, o2 \in scene : o1.type = o2.type => o1 = o2
    /\ line.id = mesh.id /\ points.id = mesh.id
    /\ \A id \in DOMAIN heap \ {mesh.id} :
           /\ heap[id].disposed = AllLayers
           /\ \A o \in scene : o.id # id

\* After two replacements the three layers of the third buffer are attached
C6_Witness ==
    /\ mesh.id = 2
    /\ scene = {mesh, line, points}
    /\ heap[mesh.id].disposed = {}

\* The kind of target of a click
TargetKind(hit) ==
    IF hit = NoHit THEN "none"
    ELSE IF hit.object.type = MeshType THEN "face"
    ELSE IF hit.object.type = PointsType THEN "point"
    ELSE "other"

\* The dispatch table: the request of a click on hit in the current mode
TableRequest(hit) ==
    LET kind == TargetKind(hit)
        mode == params.mode
    IN  CASE kind = "face" /\ mode = "tessellate" ->
                 {[url |-> "/faceselective", method |-> "POST",
                   body |-> [index |-> hit.faceIndex, vertices |-> cacheVertices,
                             indices |-> cacheIndices]]}
          [] kind = "point" /\ mode = "tessellate" ->
                 {[url |-> "/vertexselective", method |-> "POST",
                   body |-> [index |-> hit.index,
                             distance |-> params.searchDistance]]}
          [] kind = "point" /\ mode = "search" ->
                 {[url |-> "/search", method |-> "POST",
                   body |-> [index |-> hit.index,
                             distance |-> params.searchDistance]]}
          [] kind = "point" /\ mode = "store" ->
                 {[url |-> "/store", method |-> "POST",
                   body |-> [index |-> hit.index, value |-> params.storeValue]]}
          [] kind = "point" /\ mode = "retrieve" ->
                 {[url |-> "/retrieve", method |-> "POST",
                   body |-> [index |-> hit.index]]}
          [] OTHER -> {}

\* The calls made by the step
NewCalls == {[url |-> n.url, method |-> n.method, body |-> n.body] :
                 n \in inflight' \ inflight}

\* C8: a click issues exactly the request of the dispatch table for the
\* mode and the kind of target, at most one, and changes nothing else; in
\* view mode and on a target that is neither face nor point it issues none.
C8_DispatchTable ==
    [][\A hit \in Hits \cup {NoHit} :
           onClick(hit) =>
               /\ NewCalls = TableRequest(hit)
               /\ Cardinality(inflight' \ inflight) <= 1
               /\ inflight \subseteq inflight'
               /\ (params.mode = "view" \/ TargetKind(hit) \in {"none", "other"})
                      => inflight' = inflight
               /\ UNCHANGED <<scene, heap, mesh, line, points, intersectedFace,
                              intersectedPoint, cacheVertices, cacheIndices,
                              params, alerts>>]_vars

\* A face click in tessellate mode has sent the snapshot cached by an earlier
\* response, with the distance changed
C8_Witness ==
    /\ \E r \in inflight :
           /\ r.url = "/faceselective"
           /\ r.body = [index |-> 0, vertices |-> SnapA.vertices,
                        indices |-> SnapA.indices]
    /\ params.searchDistance = 3

\* The indices named by a search response
Named(d) == {d.vertices[i] : i \in 1..Len(d.vertices)}

\* C9: applying a search response paints exactly the named points of the
\* current point overlay red and changes nothing else.
C9_SearchPaintsOnlyNamedPoints ==
    [][\A r \in Pending("/search"), d \in SearchResponses :
           thenSearch(r, d) =>
               /\ \A i \in DOMAIN PointColor :
                      heap'[points.id].pcolor[i] =
                          IF i \in Named(d) THEN Red ELSE PointColor[i]
               /\ heap = [heap' EXCEPT ![points.id].pcolor = PointColor,
                                        ![points.id].needsUpdate =
                                            heap[points.id].needsUpdate]
               /\ UNCHANGED <<scene, mesh, line, points, intersectedFace,
                              intersectedPoint, cacheVertices, cacheIndices,
                              params, alerts>>]_vars

\* Point 1 of a replaced mesh is red while point 0 is the hot one
C9_Witness ==
    /\ mesh.id = 1
    /\ RedPoints = {0, 1}
    /\ Truthy(intersectedPoint)
    /\ intersectedPoint.object = points
    /\ intersectedPoint.index = 0

\* The buffers, the cache and the pick state
MeshState == <<scene, heap, mesh, line, points, cacheVertices, cacheIndices,
               intersectedFace, intersectedPoint>>

\* C10: a store click on point v sends {index: v, value: storeValue}, a
\* retrieve click {index: v}; applying their responses shows the payload and
\* leaves the buffers, the color overlays, the cache and the pick state as
\* they are.
C10_StoreRetrieve ==
    [][/\ \A hit \in Hits :
              (onClick(hit) /\ TargetKind(hit) = "point") =>
                  /\ params.mode = "store" =>
                         {<<n.url, n.body>> : n \in inflight' \ inflight} =
                             {<<"/store", [index |-> hit.index,
                                           value |-> params.storeValue]>>}
                  /\ params.mode = "retrieve" =>
                         {<<n.url, n.body>> : n \in inflight' \ inflight} =
                             {<<"/retrieve", [index |-> hit.index]>>}
       /\ \A r \in Pending("/store"), d \in StoreResponses :
              thenStore(r, d) =>
                  /\ UNCHANGED MeshState
                  /\ alerts' = Append(alerts, IF d.success THEN "true" ELSE "false")
       /\ \A r \in Pending("/retrieve"), d \in RetrieveResponses :
              thenRetrieve(r, d) =>
                  /\ UNCHANGED MeshState
                  /\ alerts' = Append(alerts, d.value)]_vars

\* A store of "abc" on the hot red point 3 was answered with success, then a
\* retrieve with the value "abc"
C10_Witness ==
    /\ Len(alerts) >= 2
    /\ alerts[1] = "true"
    /\ alerts[2] = "abc"
    /\ Truthy(intersectedPoint)
    /\ 3 \in RedPoints

-----------------------------------------------------------------------------
(* Cache at start-up, hover tie-breaks, malformed and stale responses *)

\* No response handler has run yet: the initial layers are current and intact
NoResponseApplied == mesh.id = 0 /\ heap[0].disposed = {}

\* C11: before any tessellation response has been applied the cache reads as
\* the snapshot of the initially displayed dome, so a face-selective request
\* issued until then carries arrays that build the displayed surface.
C11_InitialCacheIsDefaultSnapshot ==
    NoResponseApplied =>
        \A r \in Pending("/faceselective") :
            /\ IsArray(r.body.vertices)
            /\ IsArray(r.body.indices)
            /\ LET g == createGeometry([vertices |-> r.body.vertices,
                                        indices |-> r.body.indices])
               IN  /\ g.position = heap[0].position
                   /\ g.index = heap[0].index

\* C14: a pointer-move whose nearest object is the wireframe is treated like
\* no intersection: the handler ends with neither a face nor a point hot.
C14_WireframeHitIsNoIntersection ==
    \A hit \in Hits :
        hit.object.type = LineType =>
            ENABLED (/\ MoveOver(hit)
                     /\ ~Truthy(intersectedFace')
                     /\ ~Truthy(intersectedPoint'))

\* C15: a pointer-move over the face that is already hot writes no colour
\* slot and does not reassign the hot-face reference; the same holds for the
\* point that is already hot.
C15_SameFaceNoRepaint ==
    [][\A hit \in Hits :
           (/\ \/ hit.object.type = MeshType /\ hit = intersectedFace
               \/ hit.object.type = PointsType /\ hit = intersectedPoint
            /\ MoveOver(hit))
               => UNCHANGED <<heap, intersectedFace, intersectedPoint>>]_vars

\* The step is the response handler of the mesh call r run with data d
MeshApplied(r, d) ==
    \/ r.url = "/tesselate" /\ thenTesselate(r, d)
    \/ r.url = "/reset" /\ thenReset(r, d)
    \/ SelectiveApplied(r, d)

\* C16: a response without a vertices or an indices array leaves the
\* MeshBuffer, the scene and the cache as they were.
C16_MalformedResponseIgnored ==
    [][\A r \in inflight, d \in MeshResponses :
           (Throws(d) /\ MeshApplied(r, d)) =>
               UNCHANGED <<scene, heap, mesh, line, points, cacheVertices,
                           cacheIndices>>]_vars

\* C20: when a face-selective response is applied, the snapshot sent in its
\* request is the cache content of that moment.
C20_RequestSnapshotIsCurrent ==
    [][\A r \in Pending("/faceselective"), d \in MeshResponses :
           thenFaceSelective(r, d) =>
               (r.body.vertices = cacheVertices /\ r.body.indices = cacheIndices)]_vars

-----------------------------------------------------------------------------
(* Round trip of a snapshot through the buffers *)

\* The triples of an array of a snapshot, in order
Triples(a) ==
    IF a.enc = "nested" THEN a.items
    ELSE [i \in 1..(Len(a.items) \div 3) |->
              <<a.items[3 * i - 2], a.items[3 * i - 1], a.items[3 * i]>>]

\* The triples read back from a buffer of item size 3
BufferTriples(buf) ==
    [i \in 1..(Len(buf) \div 3) |-> <<buf[3 * i - 2], buf[3 * i - 1], buf[3 * i]>>]

Scaled(t) == <<50 * t[1], 50 * t[2], 50 * t[3]>>

\* The layers l hold the triples of snapshot d: vertex i scaled by 50 in the
\* surface and in the point cloud, face j, one colour entry and one point per
\* vertex
RoundTrips(d, l) ==
    LET V == Triples(d.vertices)
        F == Triples(d.indices)
    IN  /\ Len(l.position) = 3 * Len(V)
        /\ BufferTriples(l.position) = [i \in 1..Len(V) |-> Scaled(V[i])]
        /\ BufferTriples(l.pposition) = [i \in 1..Len(V) |-> Scaled(V[i])]
        /\ Len(l.index) = 3 * Len(F)
        /\ BufferTriples(l.index) = F
        /\ DOMAIN l.color = 0..(Len(V) - 1)
        /\ DOMAIN l.pcolor = 0..(Len(V) - 1)

\* C12 as stated: every snapshot of whole triples is read back from the
\* buffers as the same triples, each component multiplied by 50.
C12_RoundTripEverySnapshot ==
    [][\A r \in Pending("/tesselate"), d \in WholeSnapshots :
           thenTesselate(r, d) => RoundTrips(d, heap'[mesh'.id])]_vars

Abs(x) == IF x < 0 THEN 0 - x ELSE x

\* Every 50-fold component of d is an integer of at most 24 bits
SinglePrecision(d) ==
    LET V == Triples(d.vertices)
    IN  \A i \in 1..Len(V), k \in 1..3 : Abs(50 * V[i][k]) <= 2^24

\* C12: a snapshot of whole triples whose 50-fold components are exact in
\* single precision is read back from the buffers as the same triples, each
\* component multiplied by 50, with the same index triples in the same order
\* and one colour entry and one point per vertex.
C12_RoundTrip ==
    [][\A r \in Pending("/tesselate"), d \in WholeSnapshots :
           (SinglePrecision(d) /\ thenTesselate(r, d)) =>
               RoundTrips(d, heap'[mesh'.id])]_vars

\* The current layers were built from the flat two-vertex snapshot
\* 1,-2,3, 0,0,1 with two faces
C12_Witness ==
    /\ mesh.id >= 1
    /\ heap[mesh.id].position = <<50, -100, 150, 0, 0, 50>>
    /\ heap[mesh.id].index = <<0, 1, 1, 1, 0, 0>>
    /\ DOMAIN heap[mesh.id].pcolor = {0, 1}

-----------------------------------------------------------------------------
(* Responses out of order *)

\* Every well-formed response replaces the layers, so mesh.id counts the
\* responses applied; r.id counts the calls issued before r.  When the first
\* exceeds the second, the response of a call issued after r has been applied
\* while r is unanswered.
Stale(r) == mesh.id > r.id

\* C13: the response of a selective call is applied even when the response of
\* a later-issued call was applied before it: the cache and the surface then
\* become those of the earlier-issued call's response.
C13_StaleResponseApplied ==
    [][\A r \in inflight, d \in MeshResponses \ {Malformed} :
           (Stale(r) /\ SelectiveApplied(r, d)) =>
               /\ cacheVertices' = d.vertices
               /\ cacheIndices' = d.indices
               /\ mesh' # mesh
               /\ heap'[mesh'.id].position = createGeometry(d).position
               /\ heap'[mesh'.id].index = createGeometry(d).index
               /\ CacheMatchesMesh']_vars

\* The first call, a vertexselective one, is unanswered while the response
\* SnapA of the second call has been applied
C13_Witness ==
    /\ issued >= 2
    /\ \E r \in inflight : r.id = 0 /\ r.url = "/vertexselective" /\ Stale(r)
    /\ cacheVertices = SnapA.vertices
    /\ mesh.id = 1

-----------------------------------------------------------------------------
(* Failed calls, calls in flight, bulk actions *)

\* Everything but the calls in flight and their count
Display == <<scene, heap, mesh, line, points, intersectedFace, intersectedPoint,
             cacheVertices, cacheIndices, params, alerts>>

\* The click on hit issues its call
Dispatches(hit) == onClick(hit) /\ inflight' # inflight

\* Every bulk action and every click with an entry in the dispatch table can
\* issue its call
CanDispatch ==
    /\ ENABLED TesselateAll
    /\ ENABLED ResetDome
    /\ \A hit \in Hits : TableRequest(hit) # {} => ENABLED Dispatches(hit)

\* C17: a call whose response fails runs no completion branch: nothing but
\* the set of calls in flight changes, and afterwards every bulk action and
\* every dispatching click still issues its call.
C17_FailureChangesNothing ==
    /\ [][Fail => (UNCHANGED <<Display, issued>> /\ inflight' \subseteq inflight)]_vars
    /\ []((issued \in 1..(MaxRequests - 1) /\ Cardinality(inflight) < issued)
              => CanDispatch)

\* One call failed, none was applied, in tessellate mode with the points shown
C17_Witness ==
    /\ issued = 1
    /\ inflight = {}
    /\ NoResponseApplied
    /\ params.mode = "tessellate"
    /\ params.showPoints

\* The step adds exactly one call, the next one issued, to those in flight
IssuesOne ==
    /\ issued' = issued + 1
    /\ \E n \in inflight' :
           /\ n \notin inflight
           /\ n.id = issued
           /\ inflight' = inflight \cup {n}

\* C18: a dispatching click or a bulk action issues its call at once, also
\* while earlier calls are unanswered; the call joins those in flight and
\* leaves them as they are, and any other step takes at most one call out of
\* those in flight, so the calls in flight are the calls issued and not yet
\* answered.
C18_NoDebounceNoQueue ==
    /\ [][/\ \A hit \in Hits : (onClick(hit) /\ TableRequest(hit) # {}) => IssuesOne
          /\ (TesselateAll \/ ResetDome) => IssuesOne
          /\ issued' = issued =>
                 /\ inflight' \subseteq inflight
                 /\ Cardinality(inflight \ inflight') <= 1]_vars
    /\ []((issued < MaxRequests /\ inflight # {}) => CanDispatch)
    /\ [](/\ Cardinality(inflight) <= issued
          /\ \A a, b \in inflight : a.id = b.id => a = b)

\* Two face clicks are unanswered at the same time
C18_Witness ==
    /\ Cardinality(Pending("/faceselective")) = 2
    /\ NoResponseApplied

\* C19: in every mode "tesselate all" issues POST /tesselate and "reset dome"
\* issues GET /reset, one call each, leaving the mode as it is; the response
\* of either replaces the layers by ones built from it, whatever the mode.
C19_BulkActionsModeIndependent ==
    /\ [][/\ TesselateAll =>
                 /\ NewCalls = {[url |-> "/tesselate", method |-> "POST",
                                 body |-> [text |-> "1"]]}
                 /\ IssuesOne
                 /\ UNCHANGED Display
          /\ ResetDome =>
                 /\ NewCalls = {[url |-> "/reset", method |-> "GET", body |-> Null]}
                 /\ IssuesOne
                 /\ UNCHANGED Display
          /\ \A r \in Pending("/tesselate") \cup Pending("/reset"),
                d \in MeshResponses \ {Malformed} :
                 MeshApplied(r, d) =>
                     /\ mesh' # mesh
                     /\ mesh' \in scene'
                     /\ heap'[mesh'.id].position = createGeometry(d).position
                     /\ heap'[mesh'.id].index = createGeometry(d).index
                     /\ UNCHANGED params]_vars
    /\ [](issued < MaxRequests => (ENABLED TesselateAll /\ ENABLED ResetDome))

\* In store mode the response of a bulk action has replaced the layers and a
\* second bulk action is in flight
C19_Witness ==
    /\ params.mode = "store"
    /\ mesh.id = 1
    /\ Pending("/reset") # {}

-----------------------------------------------------------------------------
(* Hover and search next to a replacement *)

\* The colour buffers of generation id and their pending uploads
Colors(h, id) == <<h[id].color, h[id].pcolor, h[id].needsUpdate>>

\* C21: no pointer-move handler writes into a colour buffer of a generation
\* whose geometries have been released: every write of the hover tracker goes
\* to the layers that are current.
C21_HoverWritesCurrentOnly ==
    [][\A hit \in Hits \cup {NoHit} :
           MoveOver(hit) =>
               \A id \in DOMAIN heap :
                   (heap[id].disposed # {} \/ id # mesh.id) =>
                       Colors(heap', id) = Colors(heap, id)]_vars

\* C22: the response of a search call issued before a replacement that has
\* since been applied paints nothing onto the point overlay of the new layers.
C22_SearchResponseNotOnNewOverlay ==
    [][\A r \in Pending("/search"), d \in SearchResponses :
           (Stale(r) /\ thenSearch(r, d)) =>
               heap'[points.id].pcolor = heap[points.id].pcolor]_vars

\* Point i of the current overlay is the hot one
IsHot(i) ==
    /\ Truthy(intersectedPoint)
    /\ intersectedPoint.object = points
    /\ intersectedPoint.index = i

\* C23: a point painted red by a search response keeps that colour under
\* pointer-moves: right after the response no pointer-move can take the red
\* off a point the response named.
C23_SearchColorSurvivesHover ==
    [][\A r \in Pending("/search"), d \in SearchResponses :
           thenSearch(r, d) =>
               \A i \in Named(d) \cap DOMAIN PointColor :
                   ~(ENABLED (\E hit \in Hits \cup {NoHit} :
                                  MoveOver(hit) /\ PointColor'[i] # Red))']_vars

-----------------------------------------------------------------------------
(* The server *)

\* C24: the server stays up, sends at most one response to a request, and has
\* sent exactly one once the script of the request has ended, whatever lines
\* the script printed and however it ended.
C24_OneResponsePerRequest ==
    /\ server.up
    /\ \A k \in DOMAIN server.reqs :
           /\ server.reqs[k].replies <= 1
           /\ server.reqs[k].shell = "ended" => server.reqs[k].replies = 1

====
